---- MODULE Spec2Model ----
(***************************************************************************)
(* Model of the storage / locking layer of oyster-storage-rs              *)
(* (src/src/database.rs, src/src/ipfs.rs, configuration of                *)
(* src/src/main.rs).                                                      *)
(*                                                                         *)
(* Strings are sequences of symbols.  A symbol is one character, except   *)
(* Boundary, which stands for the 46 bytes of the closing delimiter that   *)
(* ipfs::add writes after the payload.  The backend (redis) is a function *)
(* from the keys that are present to [val, ttl]; the overflow store       *)
(* (ipfs) maps each reference it can serve to "pinned" or "unpinned".     *)
(***************************************************************************)
EXTENDS Integers, Sequences, FiniteSets, TLC

(***************************************************************************)
(* Bounds of the model                                                     *)
(***************************************************************************)
MaxOps == 3          \* storage calls issued in one behaviour
MaxLockOps == 4      \* lock and unlock calls issued in one behaviour
MaxShareOps == 4     \* storage calls issued in one behaviour of SpecShare
MaxFaultOps == 2     \* storage calls issued in one behaviour of SpecFault
MaxReadOps == 3      \* storage calls issued in one behaviour of SpecRead
MaxListOps == 4      \* storage and list calls issued in one behaviour of SpecList
MaxCostOps == 2      \* cost computations in one behaviour of SpecCost
MaxRetryOps == 3     \* lock and unlock calls in one behaviour of SpecRetry
MaxHandlerOps == 4   \* lock and unlock requests in one behaviour of SpecHandler
MaxKsOps == 3        \* calls in one behaviour of SpecKeyspace
MaxFrameOps == 3     \* calls in one behaviour of SpecFrame
MaxLedgerOps == 3    \* requests in one behaviour of SpecLedger
MaxAnyOps == 2       \* calls issued in one behaviour of SpecAnyTenant
MaxTicks == 2        \* clock ticks in one behaviour
TickMs == 1000       \* milliseconds per clock tick

(***************************************************************************)
(* Configuration (main.rs Config).  retry_count, lock_expiry and           *)
(* mem_threshold are read from config.toml; the model runs them small.     *)
(***************************************************************************)
retry_count == 2
lock_expiry == 2000
mem_threshold == 2
operation_a_cost == 17637500
operation_b_cost == 3527500
operation_c_cost == 1763750
memory_cost == 879583

(***************************************************************************)
(* Inputs                                                                  *)
(***************************************************************************)
Callers == {"c1", "c2"}

\* tenants the deployment intends (no separator inside the tenant string)
PlainTenants == {<<"p">>, <<"q">>}
\* a tenant string that contains the lock suffix
SuffixTenants == {<<"p", ".", "l", "o", "c", "k">>}
AllTenants == PlainTenants \cup SuffixTenants

Keys == {<<"a">>, <<"b">>}

\* the <<tenant, key>> pairs storage calls are issued for
Targets == {<<<<"p">>, <<"a">>>>, <<<<"p">>, <<"b">>>>, <<<<"q">>, <<"a">>>>}

\* the <<tenant, key>> pairs of SpecAnyTenant: any tenant string
AnyTargets == {<<pcr, <<"a">>>> : pcr \in {<<"p">>} \cup SuffixTenants}

\* the <<tenant, key>> pairs of SpecList: keys with and without separators
ListTargets ==
  {<<<<"p">>, key>> : key \in {<<"a", "_">>, <<"a", "/", "b">>, <<"a", "/", "c">>, <<"o", "a">>}}
    \cup {<<<<"q">>, <<"a", "/", "b">>>>}

\* the prefixes list is called with
ListPrefixes == {<<"a">>, <<"a", "/">>, <<"?">>, <<" ">>, <<"*">>, <<>>}

\* byte counts (namespaced key + serialized record) of SpecCost
CostBytes == {1, 60, 100, 1000}

\* the <<tenant, key>> pairs lock calls are issued for
LockTargets == {<<<<"p">>, <<"a">>>>}

\* tenants of SpecKeyspace: a plain one and one that is a pattern character
\* of SCAN
KsTenants == {<<"p">>, <<"*">>}

\* the caller that issues the lock and unlock calls of SpecKeyspace
KsCallers == {"c1"}

\* the prefixes list is called with in SpecKeyspace
KsPrefixes == {<<>>, <<"a">>}

\* strings compared as tenants and keys: all those of at most KsLen symbols
\* over separators, the lock suffix and a letter
KsLen == 2
KsStrings ==
  UNION {[1..n -> {"a", "/", ".", ".lock", "*"}] : n \in 0..KsLen}

\* the values of config.retry_count lock is called with in SpecRetry
RetryCounts == {0, 1, retry_count}

\* the closing delimiter "\r\n--<boundary>--\r\n" of ipfs::add, as one symbol
Boundary == "<CRLF>------WebKitFormBoundaryP7QTR7KAEBq0gxMo--<CRLF>"
BoundaryLen == 46

Fill(n, ch) == [i \in 1..n |-> ch]
\* a value of exactly mem_threshold bytes (inline)
VInline == Fill(mem_threshold, "x")
\* a value one byte over the threshold (overflowed)
VOver == Fill(mem_threshold + 1, "y")
\* a value over the threshold that contains the closing delimiter
VDelim == <<"z", Boundary, "w">>
Values == {VInline, VOver, VDelim}

ExpChoices == {-1, 0, TickMs, 2 * TickMs}

\* expiries of SpecRead: a refresh, whole seconds, and a second and a half
ReadExpChoices == {-1, TickMs, TickMs + TickMs \div 2}

Faults == {"none", "ipfs", "redis"}

(***************************************************************************)
(* Strings                                                                 *)
(***************************************************************************)
SymLen(s) == IF s = Boundary THEN BoundaryLen ELSE 1

RECURSIVE StrLen(_)
\* String::len(): the length in bytes
StrLen(s) == IF s = <<>> THEN 0 ELSE SymLen(Head(s)) + StrLen(Tail(s))

IsPrefix(p, s) == Len(p) <= Len(s) /\ SubSeq(s, 1, Len(p)) = p

(***************************************************************************)
(* Namespace codec                                                         *)
(***************************************************************************)
get_namespace_prefix(pcr) == pcr \o <<"/">>

get_namespaced_key(pcr, key) == get_namespace_prefix(pcr) \o key

\* mutant: lock keys without the ".lock" suffix
get_locked_prefix_plain(pcr) == pcr \o <<"/">>

get_locked_prefix(pcr) == pcr \o <<".", "l", "o", "c", "k">> \o <<"/">>

get_locked_key(pcr, key) == get_locked_prefix(pcr) \o key

(***************************************************************************)
(* Overflow store (ipfs.rs).  A reference is the tag "Qm" followed by the  *)
(* bytes the server received: equal bytes yield the same reference.  add  *)
(* pins the reference, pin/rm unpins it; an unpinned reference can be     *)
(* served until the store collects it.                                     *)
(***************************************************************************)
CidTag == "Qm"
CidLen == 46

IsCid(s) == s # <<>> /\ Head(s) = CidTag

RECURSIVE UpToBoundary(_)
\* the file part a multipart parser reads from the body of ipfs::add: the
\* payload up to the first closing delimiter (what follows is epilogue)
UpToBoundary(s) ==
  IF s = <<>> \/ Head(s) = Boundary THEN <<>>
  ELSE <<Head(s)>> \o UpToBoundary(Tail(s))

\* the form body written by add, as the server splits it
multipart_file(data) == UpToBoundary(data \o <<Boundary>>)

ipfs_hash(content) == <<CidTag>> \o content

ipfs_add(b, data) ==
  LET h == ipfs_hash(multipart_file(data))
  IN [blobs |-> (h :> "pinned") @@ b, hash |-> h]

ipfs_get(b, ref) ==
  IF ref \in DOMAIN b THEN [ok |-> TRUE, content |-> Tail(ref)]
  ELSE [ok |-> FALSE, content |-> <<>>]

\* pin/rm: an error unless the reference is pinned
ipfs_delete(b, ref) ==
  IF ref \in DOMAIN b /\ b[ref] = "pinned"
  THEN [ok |-> TRUE, blobs |-> (ref :> "unpinned") @@ b]
  ELSE [ok |-> FALSE, blobs |-> b]

\* garbage collection of the store: what is not pinned is dropped
ipfs_collect(b) == [ref \in {x \in DOMAIN b : b[x] = "pinned"} |-> b[ref]]

(***************************************************************************)
(* Record encoding (serde_json of StorageData)                             *)
(***************************************************************************)
RECURSIVE JsonEscape(_)
JsonEscape(s) ==
  IF s = <<>> THEN <<>>
  ELSE IF Head(s) \in {"\"", "\\"} THEN <<"\\", Head(s)>> \o JsonEscape(Tail(s))
  ELSE <<Head(s)>> \o JsonEscape(Tail(s))

RECURSIVE JsonUnescape(_)
JsonUnescape(s) ==
  IF s = <<>> THEN <<>>
  ELSE IF Head(s) = "\\" /\ Len(s) >= 2 THEN <<s[2]>> \o JsonUnescape(SubSeq(s, 3, Len(s)))
  ELSE <<Head(s)>> \o JsonUnescape(Tail(s))

RECURSIVE Digits(_)
Digits(n) == IF n < 10 THEN 1 ELSE 1 + Digits(n \div 10)

\* serde_json::to_string(&StorageData)
to_string(data) ==
  [kind |-> "json", value |-> JsonEscape(data.value),
   modified |-> data.modified, ipfs |-> data.ipfs]

\* serde_json::from_str::<StorageData>
from_str(text) ==
  [value |-> JsonUnescape(text.value), modified |-> text.modified, ipfs |-> text.ipfs]

\* length of {"value":"..","modified":..,"ipfs":..}
JsonLen(text) ==
  10 + (IF IsCid(text.value) THEN CidLen ELSE StrLen(text.value)) + 13
     + Digits(text.modified) + 8 + (IF text.ipfs THEN 4 ELSE 5) + 1

\* the bytes of a lock token, as stored
token_bytes(tok) == [kind |-> "bytes", value |-> tok, modified |-> 0, ipfs |-> FALSE]

(***************************************************************************)
(* Backend commands                                                        *)
(***************************************************************************)
Nil == [kind |-> "nil", value |-> <<>>, modified |-> 0, ipfs |-> FALSE]

RedisGet(r, k) == IF k \in DOMAIN r THEN r[k].val ELSE Nil

RedisExists(r, k) == k \in DOMAIN r

RedisDel(r, k) == [x \in DOMAIN r \ {k} |-> r[x]]

\* mutant: the key is written with a longer expiry than asked
RedisSetPxLong(r, k, v, px) == (k :> [val |-> v, ttl |-> px + TickMs]) @@ r

\* mutant: SET k v PX px that leaves the TTL of a key that is present
RedisSetPxKeepttl(r, k, v, px) ==
  (k :> [val |-> v, ttl |-> IF k \in DOMAIN r THEN r[k].ttl ELSE px]) @@ r

\* SET k v PX px
RedisSetPx(r, k, v, px) == (k :> [val |-> v, ttl |-> px]) @@ r

\* mutant: SET k v GET KEEPTTL without XX; a key that is absent is created
RedisSetGetKeepttl(r, k, v) ==
  IF k \in DOMAIN r
  THEN [redis |-> (k :> [val |-> v, ttl |-> r[k].ttl]) @@ r, old |-> r[k].val]
  ELSE [redis |-> (k :> [val |-> v, ttl |-> TickMs]) @@ r, old |-> Nil]

\* SET k v XX GET KEEPTTL
RedisSetXxGetKeepttl(r, k, v) ==
  IF k \in DOMAIN r
  THEN [redis |-> (k :> [val |-> v, ttl |-> r[k].ttl]) @@ r, old |-> r[k].val]
  ELSE [redis |-> r, old |-> Nil]

\* SET k v NX PX px
RedisSetNxPx(r, k, v, px) ==
  IF k \in DOMAIN r THEN [redis |-> r, set |-> FALSE]
  ELSE [redis |-> (k :> [val |-> v, ttl |-> px]) @@ r, set |-> TRUE]

\* keys whose TTL runs out within ms milliseconds are removed
RedisExpire(r, ms) ==
  LET live == {k \in DOMAIN r : r[k].ttl > ms}
  IN [k \in live |-> [val |-> r[k].val, ttl |-> r[k].ttl - ms]]

(***************************************************************************)
(* database.rs: storage engine.  Each operator takes the backend r, the    *)
(* overflow store b and the arguments, and yields the new stores with the  *)
(* Result of the call.  fault names the round-trip the environment fails   *)
(* ("ipfs": the overflow-store request, "redis": the backend write).       *)
(***************************************************************************)
\* mutant: the quotient is rounded up
RustDivCeil(a, d) == IF a >= 0 THEN (a + d - 1) \div d ELSE -((-a) \div d)

\* mutant: division rounding toward minus infinity
RustDivFloor(a, d) == a \div d

\* i64 division, truncating toward zero
RustDiv(a, d) == IF a >= 0 THEN a \div d ELSE -((-a) \div d)

Max(a, c) == IF a >= c THEN a ELSE c

\* mutant: every reply converts to a String
IsStringAny(v) == TRUE

\* the reply converted to a Rust String: only a stored record text converts
\* (a nil reply, or the 20 random bytes of a token, is an error)
IsString(v) == v.kind = "json"

Res(ok, val, cost) == [ok |-> ok, val |-> val, cost |-> cost]

load(r, b, pcr, key) ==
  LET v == RedisGet(r, get_namespaced_key(pcr, key))
      data == from_str(v)
      got == ipfs_get(b, data.value)
  IN IF ~IsString(v) THEN Res(FALSE, <<>>, 0)
     ELSE IF ~data.ipfs THEN Res(TRUE, data.value, operation_c_cost)
     ELSE IF got.ok THEN Res(TRUE, got.content, operation_c_cost)
     ELSE Res(FALSE, <<>>, 0)

StoreRes(r, b, ok, cost) == [redis |-> r, blobs |-> b, ok |-> ok, cost |-> cost]

\* mutant: a value of exactly mem_threshold bytes goes to the overflow store
store_at_threshold(r, b, t, pcr, key, exp, value, fault) ==
  LET k == get_namespaced_key(pcr, key)
      over == StrLen(value) >= mem_threshold
      added == ipfs_add(b, value)
      data == IF over THEN [value |-> added.hash, modified |-> t, ipfs |-> TRUE]
              ELSE [value |-> value, modified |-> t, ipfs |-> FALSE]
      b1 == IF over THEN added.blobs ELSE b
      text == to_string(data)
      cost == JsonLen(text)
      xx == RedisSetXxGetKeepttl(r, k, text)
  IN IF over /\ fault = "ipfs" THEN StoreRes(r, b, FALSE, 0)
     ELSE IF exp > 0 THEN
       IF fault = "redis" THEN StoreRes(r, b1, FALSE, 0)
       ELSE StoreRes(RedisSetPx(r, k, text, exp), b1, TRUE,
                     (StrLen(k) + cost) * RustDiv(exp, 1000) * memory_cost
                       + operation_c_cost)
     ELSE IF exp = -1 THEN
       IF fault = "redis" THEN StoreRes(r, b1, FALSE, 0)
       ELSE IF ~IsString(xx.old) THEN StoreRes(xx.redis, b1, FALSE, 0)
       ELSE StoreRes(xx.redis, b1, TRUE,
                     Max(cost - JsonLen(xx.old), 0) * RustDiv(exp, 1000) * memory_cost
                       + operation_c_cost)
     ELSE StoreRes(r, b1, FALSE, 0)

store(r, b, t, pcr, key, exp, value, fault) ==
  LET k == get_namespaced_key(pcr, key)
      over == StrLen(value) > mem_threshold
      added == ipfs_add(b, value)
      data == IF over THEN [value |-> added.hash, modified |-> t, ipfs |-> TRUE]
              ELSE [value |-> value, modified |-> t, ipfs |-> FALSE]
      b1 == IF over THEN added.blobs ELSE b
      text == to_string(data)
      cost == JsonLen(text)
      xx == RedisSetXxGetKeepttl(r, k, text)
  IN IF over /\ fault = "ipfs" THEN StoreRes(r, b, FALSE, 0)
     ELSE IF exp > 0 THEN
       IF fault = "redis" THEN StoreRes(r, b1, FALSE, 0)
       ELSE StoreRes(RedisSetPx(r, k, text, exp), b1, TRUE,
                     (StrLen(k) + cost) * RustDiv(exp, 1000) * memory_cost
                       + operation_c_cost)
     ELSE IF exp = -1 THEN
       IF fault = "redis" THEN StoreRes(r, b1, FALSE, 0)
       ELSE IF ~IsString(xx.old) THEN StoreRes(xx.redis, b1, FALSE, 0)
       ELSE StoreRes(xx.redis, b1, TRUE,
                     Max(cost - JsonLen(xx.old), 0) * RustDiv(exp, 1000) * memory_cost
                       + operation_c_cost)
     ELSE StoreRes(r, b1, FALSE, 0)

delete(r, b, pcr, key, fault) ==
  LET k == get_namespaced_key(pcr, key)
      v == RedisGet(r, k)
      data == from_str(v)
      del == ipfs_delete(b, data.value)
      b1 == IF data.ipfs THEN del.blobs ELSE b
  IN IF ~IsString(v) THEN StoreRes(r, b, FALSE, 0)
     ELSE IF data.ipfs /\ (fault = "ipfs" \/ ~del.ok) THEN StoreRes(r, b, FALSE, 0)
     ELSE IF fault = "redis" THEN StoreRes(r, b1, FALSE, 0)
     ELSE StoreRes(RedisDel(r, k), b1, TRUE, operation_c_cost)

\* mutant: exists looks the key up in the lock keyspace
exists_lockkey(r, pcr, key) ==
  Res(TRUE, RedisExists(r, get_locked_key(pcr, key)), operation_c_cost)

exists(r, pcr, key) ==
  Res(TRUE, RedisExists(r, get_namespaced_key(pcr, key)), operation_c_cost)

ends_with_slash(key) == key # <<>> /\ key[Len(key)] = "/"

NoInfo == [key |-> <<>>, modified |-> 0, size |-> 0, is_terminal |-> FALSE]

stat(r, pcr, key) ==
  LET v == RedisGet(r, get_namespaced_key(pcr, key))
      data == from_str(v)
  IN IF ~IsString(v) THEN Res(FALSE, NoInfo, 0)
     ELSE Res(TRUE,
              [key |-> key, modified |-> data.modified,
               size |-> IF IsCid(data.value) THEN CidLen ELSE StrLen(data.value),
               is_terminal |-> ~ends_with_slash(key)],
              operation_c_cost)

\* str::trim().len() == 0
IsBlank(s) == \A i \in 1..Len(s) : s[i] = " "

RECURSIVE GlobMatch(_, _)
\* the MATCH of SCAN: "*" matches any run of bytes, "?" any one byte
GlobMatch(pat, s) ==
  IF pat = <<>> THEN s = <<>>
  ELSE IF Head(pat) = "*"
    THEN GlobMatch(Tail(pat), s) \/ (s # <<>> /\ GlobMatch(pat, Tail(s)))
  ELSE IF s = <<>> THEN FALSE
  ELSE IF Head(pat) = "?" THEN GlobMatch(Tail(pat), Tail(s))
  ELSE Head(pat) = Head(s) /\ GlobMatch(Tail(pat), Tail(s))

\* str::strip_prefix, for a string that has the prefix
StripPrefix(s, p) == SubSeq(s, Len(p) + 1, Len(s))

RECURSIVE FirstSegment(_)
\* split('/').next()
FirstSegment(s) ==
  IF s = <<>> \/ Head(s) = "/" THEN <<>>
  ELSE <<Head(s)>> \o FirstSegment(Tail(s))

\* the keys the SCAN loop can return for a pattern: every matching key
CanScan(r, search) == {k \in DOMAIN r : GlobMatch(search, k)}

\* list; twice is the set of backend keys the SCAN loop returned a second
\* time.  The result is keysfound as key |-> number of occurrences.
list(r, pcr, prefix, recursive, twice) ==
  LET all == prefix = <<"*">> \/ IsBlank(prefix)
      search == IF all THEN get_namespaced_key(pcr, <<"*">>)
                ELSE get_namespaced_key(pcr, prefix) \o <<"*">>
      ns == get_namespace_prefix(pcr)
      scanned == {k \in CanScan(r, search) : IsPrefix(ns, k)}
      keysfound == [key \in {StripPrefix(k, ns) : k \in scanned} |->
                      IF (ns \o key) \in twice THEN 2 ELSE 1]
      keysmap == {FirstSegment(IF IsPrefix(prefix, key) THEN StripPrefix(key, prefix)
                               ELSE <<>>) : key \in DOMAIN keysfound}
  IN IF recursive \/ all THEN Res(TRUE, keysfound, operation_a_cost)
     ELSE Res(TRUE, [key \in {prefix \o dir : dir \in keysmap} |-> 1], operation_a_cost)

(***************************************************************************)
(* i64 arithmetic of the cost formula.  An i64 is its two's-complement     *)
(* bit pattern: a sequence of WordLimbs limbs of LimbBits bits, least      *)
(* significant first.  The operands of the formula are never negative.     *)
(***************************************************************************)
LimbBits == 8
WordLimbs == 8
LimbBase == 2 ^ LimbBits

RECURSIVE NatLimbs(_, _)
\* the n lowest limbs of a natural number
NatLimbs(x, n) ==
  IF n = 0 THEN <<>> ELSE <<x % LimbBase>> \o NatLimbs(x \div LimbBase, n - 1)

\* `as i64` of a length or of a configured cost
ToWord(x) == NatLimbs(x, WordLimbs)

\* m * LimbBase^shift as an i64
ShiftedWord(m, shift) ==
  SubSeq([i \in 1..shift |-> 0] \o ToWord(m), 1, WordLimbs)

\* i64::MAX
I64Max == [i \in 1..WordLimbs |-> IF i = WordLimbs THEN LimbBase \div 2 - 1 ELSE LimbBase - 1]

\* the sign bit of an i64
IsNegative(w) == w[WordLimbs] >= LimbBase \div 2

RECURSIVE Carry(_, _)
\* carry propagation over columns, least significant first
Carry(cols, c) ==
  IF cols = <<>> THEN <<>>
  ELSE <<(Head(cols) + c) % LimbBase>> \o Carry(Tail(cols), (Head(cols) + c) \div LimbBase)

RECURSIVE ColSum(_, _, _, _)
\* sum of a[i] * b[k + 1 - i] over i <= n
ColSum(a, b, k, n) ==
  IF n = 0 THEN 0
  ELSE (IF k + 1 - n \in 1..Len(b) THEN a[n] * b[k + 1 - n] ELSE 0) + ColSum(a, b, k, n - 1)

\* the exact product, 2 * WordLimbs limbs
FullProduct(a, b) == Carry([k \in 1..2 * WordLimbs |-> ColSum(a, b, k, Len(a))], 0)

\* the exact sum, WordLimbs + 1 limbs
FullSum(a, b) == Carry([k \in 1..WordLimbs + 1 |->
                          IF k <= WordLimbs THEN a[k] + b[k] ELSE 0], 0)

\* the i64 a wrapping operation leaves: the low WordLimbs limbs
Wrapped(full) == SubSeq(full, 1, WordLimbs)

\* the exact result does not fit an i64 (operands are not negative)
Overflows(full) ==
  \/ IsNegative(Wrapped(full))
  \/ \E i \in WordLimbs + 1..Len(full) : full[i] # 0

RECURSIVE DivLimbs(_, _, _)
\* long division by a small divisor, most significant limb first
DivLimbs(be, d, rem) ==
  IF be = <<>> THEN <<>>
  ELSE <<(rem * LimbBase + Head(be)) \div d>>
         \o DivLimbs(Tail(be), d, (rem * LimbBase + Head(be)) % d)

Reverse(w) == [i \in 1..Len(w) |-> w[Len(w) + 1 - i]]

\* exp / 1000 for exp >= 0
DivWord(w, d) == Reverse(DivLimbs(Reverse(w), d, 0))

\* cost * (exp / 1000) * config.memory_cost + config.operation_c_cost of
\* store, for cost bytes and expiry exp (an i64 >= 0).  With overflow checks
\* compiled in (checks) an overflowing operation panics and nothing is
\* returned; without them every operation wraps.
store_cost(bytes, exp, checks) ==
  LET p1 == FullProduct(ToWord(bytes), DivWord(exp, 1000))
      p2 == FullProduct(Wrapped(p1), ToWord(memory_cost))
      p3 == FullSum(Wrapped(p2), ToWord(operation_c_cost))
  IN IF checks /\ (Overflows(p1) \/ Overflows(p2) \/ Overflows(p3))
     THEN Res(FALSE, <<>>, 0)
     ELSE Res(TRUE, Wrapped(p3), 0)

(***************************************************************************)
(* database.rs: lock manager, one operator per backend round-trip          *)
(***************************************************************************)
exists_locked(r, pcr, key) == RedisExists(r, get_locked_key(pcr, key))

\* mutant: the lease is written with a longer expiry than lock_expiry
store_locked_long(r, pcr, key, val) ==
  RedisSetNxPx(r, get_locked_key(pcr, key), token_bytes(val), lock_expiry + TickMs)

store_locked(r, pcr, key, val) ==
  RedisSetNxPx(r, get_locked_key(pcr, key), token_bytes(val), lock_expiry)

\* the reply converted to Vec<u8>: a nil reply converts to the empty vector
load_locked(r, pcr, key) ==
  LET v == RedisGet(r, get_locked_key(pcr, key))
  IN IF v.kind = "nil" THEN token_bytes(<<>>) ELSE v

\* mutant: the lock key is left in place
delete_locked_noop(r, pcr, key) == r

delete_locked(r, pcr, key) == RedisDel(r, get_locked_key(pcr, key))

\* mutant: any stored token is accepted
token_eq_any(v, lock_id) == v.kind = "bytes"

\* Vec<u8>::eq(lock_id)
token_eq(v, lock_id) == v.kind = "bytes" /\ v.value = lock_id

(***************************************************************************)
(* State                                                                   *)
(*   redis    backend: key present |-> [val, ttl] (ttl: milliseconds left) *)
(*   blobs    overflow store: the pinned references                        *)
(*   now      clock, milliseconds                                          *)
(*   ops      calls issued so far; the n-th call draws the token <<n>>     *)
(*   pc, call position and arguments of each caller's call in flight       *)
(*   last     the call that returned last, with its Result                 *)
(*   cost_map AppState.cost_map: tenant |-> cost accumulated, an i64       *)
(*   credited number of the last call whose handler has run update_cost    *)
(* History, read by the properties only:                                   *)
(*   lease    lock key |-> [tok, age] of the lease granted there that has  *)
(*            neither been released with its token nor reached lock_expiry *)
(*   shadow   <<tenant, key>> |-> [value, rem, refreshed] of the value a   *)
(*            successful store left there, rem milliseconds before its     *)
(*            expiry (0: expiry reached), while no later store or delete   *)
(*            was issued for that tenant and key                           *)
(*   grants   lock key |-> number of leases granted there                  *)
(*   releases <<lock key, token>> of the unlock calls that returned Ok     *)
(***************************************************************************)
VARIABLES redis, blobs, now, ops, pc, call, last, lease, shadow, grants, releases,
          cost_map, credited

vars == <<redis, blobs, now, ops, pc, call, last, lease, shadow, grants, releases,
          cost_map, credited>>

EmptyMap == [x \in {} |-> x]

Without(f, k) == [x \in DOMAIN f \ {k} |-> f[x]]

IdleCall == [op |-> "none", pcr |-> <<>>, key |-> <<>>, id |-> 0, i |-> 0,
             lock_id |-> <<>>, probes |-> 0, retry_count |-> 0]

Returned(id, op, pcr, key, exp, value, lock_id, fault, res, probes, writes, held) ==
  [id |-> id, op |-> op, pcr |-> pcr, key |-> key, exp |-> exp, value |-> value,
   lock_id |-> lock_id, fault |-> fault, ok |-> res.ok, val |-> res.val,
   cost |-> res.cost, probes |-> probes, writes |-> writes, held |-> held,
   retry_count |-> 0]

NoLast ==
  Returned(0, "none", <<>>, <<>>, 0, <<>>, <<>>, "none", Res(FALSE, <<>>, 0), 0, 0, FALSE)

Init ==
  /\ redis = EmptyMap
  /\ blobs = EmptyMap
  /\ now = 0
  /\ ops = 0
  /\ pc = [c \in Callers |-> "idle"]
  /\ call = [c \in Callers |-> IdleCall]
  /\ last = NoLast
  /\ lease = EmptyMap
  /\ shadow = EmptyMap
  /\ grants = EmptyMap
  /\ releases = {}
  /\ cost_map = EmptyMap
  /\ credited = 0

(***************************************************************************)
(* Storage calls (one backend connection each, so a call is one step)      *)
(***************************************************************************)
ShadowStore(sh, sk, exp, value, ok) ==
  IF ok /\ exp > 0
  THEN (sk :> [value |-> value, rem |-> exp, refreshed |-> FALSE]) @@ sh
  ELSE IF ok /\ exp = -1 /\ sk \in DOMAIN sh /\ sh[sk].rem > 0
  THEN (sk :> [value |-> value, rem |-> sh[sk].rem, refreshed |-> TRUE]) @@ sh
  ELSE Without(sh, sk)

Store(pcr, key, exp, value, fault) ==
  LET res == store(redis, blobs, now, pcr, key, exp, value, fault)
  IN /\ ops' = ops + 1
     /\ redis' = res.redis
     /\ blobs' = res.blobs
     /\ last' = Returned(ops + 1, "store", pcr, key, exp, value, <<>>, fault,
                         Res(res.ok, <<>>, res.cost), 0, 0, FALSE)
     /\ shadow' = ShadowStore(shadow, <<pcr, key>>, exp, value, res.ok)
     /\ UNCHANGED <<now, pc, call, lease, grants, releases,
                    cost_map, credited>>

Delete(pcr, key, fault) ==
  LET res == delete(redis, blobs, pcr, key, fault)
  IN /\ ops' = ops + 1
     /\ redis' = res.redis
     /\ blobs' = res.blobs
     /\ last' = Returned(ops + 1, "delete", pcr, key, 0, <<>>, <<>>, fault,
                         Res(res.ok, <<>>, res.cost), 0, 0, FALSE)
     /\ shadow' = Without(shadow, <<pcr, key>>)
     /\ UNCHANGED <<now, pc, call, lease, grants, releases,
                    cost_map, credited>>

\* mutant: load reads the record with GETDEL
LoadGetDel(pcr, key) ==
  /\ ops' = ops + 1
  /\ last' = Returned(ops + 1, "load", pcr, key, 0, <<>>, <<>>, "none",
                      load(redis, blobs, pcr, key), 0, 0, FALSE)
  /\ redis' = RedisDel(redis, get_namespaced_key(pcr, key))
  /\ UNCHANGED <<blobs, now, pc, call, lease, shadow, grants, releases,
                 cost_map, credited>>

Load(pcr, key) ==
  /\ ops' = ops + 1
  /\ last' = Returned(ops + 1, "load", pcr, key, 0, <<>>, <<>>, "none",
                      load(redis, blobs, pcr, key), 0, 0, FALSE)
  /\ UNCHANGED <<redis, blobs, now, pc, call, lease, shadow, grants, releases,
                 cost_map, credited>>

Exists(pcr, key) ==
  /\ ops' = ops + 1
  /\ last' = Returned(ops + 1, "exists", pcr, key, 0, <<>>, <<>>, "none",
                      exists(redis, pcr, key), 0, 0, FALSE)
  /\ UNCHANGED <<redis, blobs, now, pc, call, lease, shadow, grants, releases,
                 cost_map, credited>>

Stat(pcr, key) ==
  /\ ops' = ops + 1
  /\ last' = Returned(ops + 1, "stat", pcr, key, 0, <<>>, <<>>, "none",
                      stat(redis, pcr, key), 0, 0, FALSE)
  /\ UNCHANGED <<redis, blobs, now, pc, call, lease, shadow, grants, releases,
                 cost_map, credited>>

\* list: key holds the prefix, exp is 1 for a recursive listing and 0 otherwise
List(pcr, prefix, recursive, twice) ==
  /\ ops' = ops + 1
  /\ last' = Returned(ops + 1, "list", pcr, prefix, IF recursive THEN 1 ELSE 0, <<>>,
                      <<>>, "none", list(redis, pcr, prefix, recursive, twice), 0, 0, FALSE)
  /\ UNCHANGED <<redis, blobs, now, pc, call, lease, shadow, grants, releases,
                 cost_map, credited>>

\* the last line of store on its own: key holds the byte count, value the
\* expiry as an i64, val the cost returned as an i64; ok is false when the
\* computation panicked
StoreCost(bytes, exp, checks) ==
  /\ ops' = ops + 1
  /\ last' = Returned(ops + 1, "store_cost", <<>>, bytes, 0, exp, <<>>,
                      IF checks THEN "checked" ELSE "none",
                      store_cost(bytes, exp, checks), 0, 0, FALSE)
  /\ UNCHANGED <<redis, blobs, now, pc, call, lease, shadow, grants, releases,
                 cost_map, credited>>

(***************************************************************************)
(* The overflow store collects unpinned references at a time of its own    *)
(***************************************************************************)
Collect ==
  /\ ipfs_collect(blobs) # blobs
  /\ blobs' = ipfs_collect(blobs)
  /\ UNCHANGED <<redis, now, ops, pc, call, last, lease, shadow, grants, releases,
                 cost_map, credited>>

(***************************************************************************)
(* lock and unlock, one step per backend round-trip: callers with their    *)
(* own connections interleave between the round-trips                      *)
(***************************************************************************)
Return(c, res, lock_id, writes, held) ==
  /\ pc' = [pc EXCEPT ![c] = "idle"]
  /\ call' = [call EXCEPT ![c] = IdleCall]
  /\ last' = [Returned(call[c].id, call[c].op, call[c].pcr, call[c].key, 0, <<>>,
                       lock_id, "none", res, call[c].probes, writes, held)
                EXCEPT !.retry_count = call[c].retry_count]

\* lock: entry of the retry loop; retries is config.retry_count
LockCall(c, pcr, key, retries) ==
  /\ pc[c] = "idle"
  /\ ops' = ops + 1
  /\ IF retries > 0
     THEN /\ pc' = [pc EXCEPT ![c] = "exists_locked"]
          /\ call' = [call EXCEPT ![c] =
                        [op |-> "lock", pcr |-> pcr, key |-> key, id |-> ops + 1,
                         i |-> 0, lock_id |-> <<>>, probes |-> 0,
                         retry_count |-> retries]]
          /\ UNCHANGED last
     ELSE /\ last' = [Returned(ops + 1, "lock", pcr, key, 0, <<>>, <<>>, "none",
                               Res(FALSE, <<>>, 0), 0, 0, FALSE)
                        EXCEPT !.retry_count = retries]
          /\ UNCHANGED <<pc, call>>
  /\ UNCHANGED <<redis, blobs, now, lease, shadow, grants, releases,
                 cost_map, credited>>

\* lock: exists_locked(..).await?
LockExists(c) ==
  /\ pc[c] = "exists_locked"
  /\ call' = [call EXCEPT ![c].probes = @ + 1]
  /\ pc' = [pc EXCEPT ![c] =
              IF exists_locked(redis, call[c].pcr, call[c].key)
              THEN "sleep" ELSE "store_locked"]
  /\ UNCHANGED <<redis, blobs, now, ops, last, lease, shadow, grants, releases,
                 cost_map, credited>>

\* mutant: the loop runs once more than config.retry_count
LockSleepOneMore(c) ==
  /\ pc[c] = "sleep"
  /\ IF call[c].i < call[c].retry_count
     THEN /\ pc' = [pc EXCEPT ![c] = "exists_locked"]
          /\ call' = [call EXCEPT ![c].i = @ + 1]
          /\ UNCHANGED last
     ELSE Return(c, Res(FALSE, <<>>, 0), <<>>, 0, FALSE)
  /\ UNCHANGED <<redis, blobs, now, ops, lease, shadow, grants, releases,
                 cost_map, credited>>

\* lock: sleep(retry_delay), then the next iteration or the end of the loop
LockSleep(c) ==
  /\ pc[c] = "sleep"
  /\ IF call[c].i + 1 < call[c].retry_count
     THEN /\ pc' = [pc EXCEPT ![c] = "exists_locked"]
          /\ call' = [call EXCEPT ![c].i = @ + 1]
          /\ UNCHANGED last
     ELSE Return(c, Res(FALSE, <<>>, 0), <<>>, 0, FALSE)
  /\ UNCHANGED <<redis, blobs, now, ops, lease, shadow, grants, releases,
                 cost_map, credited>>

\* mutant: a lost conditional write continues the loop instead of leaving it
LockStoreContinue(c) ==
  LET val == <<call[c].id>>
      lk == get_locked_key(call[c].pcr, call[c].key)
      res == store_locked(redis, call[c].pcr, call[c].key, val)
  IN /\ pc[c] = "store_locked"
     /\ redis' = res.redis
     /\ IF res.set
        THEN /\ Return(c, Res(TRUE, val, operation_b_cost), <<>>, 1, lk \in DOMAIN lease)
             /\ lease' = (lk :> [tok |-> val, age |-> 0]) @@ lease
             /\ grants' = (lk :> (IF lk \in DOMAIN grants THEN grants[lk] + 1 ELSE 1))
                             @@ grants
        ELSE /\ pc' = [pc EXCEPT ![c] = "sleep"]
             /\ UNCHANGED <<call, last, lease, grants>>
     /\ UNCHANGED <<blobs, now, ops, shadow, releases,
                    cost_map, credited>>

\* lock: get_unique_lock_id, store_locked(..).await?, return or break
LockStore(c) ==
  LET val == <<call[c].id>>
      lk == get_locked_key(call[c].pcr, call[c].key)
      res == store_locked(redis, call[c].pcr, call[c].key, val)
  IN /\ pc[c] = "store_locked"
     /\ redis' = res.redis
     /\ IF res.set
        THEN /\ Return(c, Res(TRUE, val, operation_b_cost), <<>>, 1, lk \in DOMAIN lease)
             /\ lease' = (lk :> [tok |-> val, age |-> 0]) @@ lease
             /\ grants' = (lk :> (IF lk \in DOMAIN grants THEN grants[lk] + 1 ELSE 1))
                             @@ grants
        ELSE /\ Return(c, Res(FALSE, <<>>, 0), <<>>, 1, FALSE)
             /\ UNCHANGED <<lease, grants>>
     /\ UNCHANGED <<blobs, now, ops, shadow, releases,
                    cost_map, credited>>

\* unlock: load_locked(..).await?.eq(lock_id)
UnlockLoad(c, pcr, key, lock_id) ==
  /\ pc[c] = "idle"
  /\ ops' = ops + 1
  /\ IF token_eq(load_locked(redis, pcr, key), lock_id)
     THEN /\ pc' = [pc EXCEPT ![c] = "delete_locked"]
          /\ call' = [call EXCEPT ![c] =
                        [op |-> "unlock", pcr |-> pcr, key |-> key, id |-> ops + 1,
                         i |-> 0, lock_id |-> lock_id, probes |-> 0, retry_count |-> 0]]
          /\ UNCHANGED last
     ELSE /\ last' = Returned(ops + 1, "unlock", pcr, key, 0, <<>>, lock_id, "none",
                              Res(FALSE, <<>>, 0), 0, 0, FALSE)
          /\ UNCHANGED <<pc, call>>
  /\ UNCHANGED <<redis, blobs, now, lease, shadow, grants, releases,
                 cost_map, credited>>

\* unlock: delete_locked(..).await, Ok(operation_b_cost)
UnlockDelete(c) ==
  LET lk == get_locked_key(call[c].pcr, call[c].key)
  IN /\ pc[c] = "delete_locked"
     /\ redis' = delete_locked(redis, call[c].pcr, call[c].key)
     /\ Return(c, Res(TRUE, <<>>, operation_b_cost), call[c].lock_id, 1, FALSE)
     /\ lease' = IF lk \in DOMAIN lease /\ lease[lk].tok = call[c].lock_id
                 THEN Without(lease, lk) ELSE lease
     /\ releases' = releases \cup {<<lk, call[c].lock_id>>}
     /\ UNCHANGED <<blobs, now, ops, shadow, grants,
                    cost_map, credited>>

(***************************************************************************)
(* handler.rs: the requests of one service process share AppState.conn.    *)
(* A handler takes the mutex before it calls into database.rs and holds it *)
(* until it returns, so the mutex is held exactly while a call is in       *)
(* flight.                                                                 *)
(***************************************************************************)
\* update_cost: *map.entry(pcr).or_default() += cost, on i64 (cost is not
\* negative).  With overflow checks compiled in (checks) an overflowing +=
\* panics after or_default has inserted the entry; without them it wraps.
update_cost(map, pcr, cost, checks) ==
  LET old == IF pcr \in DOMAIN map THEN map[pcr] ELSE ToWord(0)
      full == FullSum(old, cost)
  IN IF checks /\ Overflows(full) THEN (pcr :> old) @@ map
     ELSE (pcr :> Wrapped(full)) @@ map

\* the cost a database call returned, as the i64 the handler receives
CostWord(l) == IF l.op = "store_cost" THEN l.val ELSE ToWord(l.cost)

\* the database call of a handler has returned Ok and the handler has not
\* yet run update_cost; it still holds the connection
UpdatePending == last.ok /\ credited # last.id

\* ctx.state.conn.lock().await returns: no call of the process is in flight
\* and no handler is about to run update_cost
ConnFree == (\A c \in Callers : pc[c] = "idle") /\ ~UpdatePending

\* the handler, after Ok from its database call: update_cost, then return
UpdateCost ==
  /\ UpdatePending
  /\ \E checks \in BOOLEAN :
       cost_map' = update_cost(cost_map, last.pcr, CostWord(last), checks)
  /\ credited' = last.id
  /\ UNCHANGED <<redis, blobs, now, ops, pc, call, last, lease, shadow, grants, releases>>

\* handler store of bytes bytes with an expiry beyond the 32 bits of exp in
\* Store, reduced to what the ledger receives: Ok(cost) of the last line of
\* store, or the panic of that line
HandlerStoreCost(pcr, bytes, exp, checks) ==
  /\ ConnFree
  /\ ops' = ops + 1
  /\ last' = [Returned(ops + 1, "store_cost", pcr, bytes, 0, exp, <<>>,
                       IF checks THEN "checked" ELSE "none",
                       store_cost(bytes, exp, checks), 0, 0, FALSE)
                EXCEPT !.cost = 0]
  /\ UNCHANGED <<redis, blobs, now, pc, call, lease, shadow, grants, releases,
                 cost_map, credited>>

\* handler store: conn.lock().await, then database::store
HandlerStore(pcr, key, exp, value) == ConnFree /\ Store(pcr, key, exp, value, "none")

\* handler load: conn.lock().await, then database::load
HandlerLoad(pcr, key) == ConnFree /\ Load(pcr, key)

\* handler delete: conn.lock().await, then database::delete
HandlerDelete(pcr, key) == ConnFree /\ Delete(pcr, key, "none")

\* handler lock: conn.lock().await, then database::lock
HandlerLock(c, pcr, key) == ConnFree /\ LockCall(c, pcr, key, retry_count)

\* handler unlock: conn.lock().await, then database::unlock
HandlerUnlock(c, pcr, key, lock_id) == ConnFree /\ UnlockLoad(c, pcr, key, lock_id)

(***************************************************************************)
(* Time: the backend drops the keys whose TTL has run out                  *)
(***************************************************************************)
Tick ==
  /\ now < MaxTicks * TickMs
  /\ now' = now + TickMs
  /\ redis' = RedisExpire(redis, TickMs)
  /\ lease' = LET live == {k \in DOMAIN lease : lease[k].age + TickMs < lock_expiry}
              IN [k \in live |-> [tok |-> lease[k].tok, age |-> lease[k].age + TickMs]]
  /\ shadow' = [sk \in DOMAIN shadow |->
                  [shadow[sk] EXCEPT !.rem = Max(@ - TickMs, 0)]]
  /\ UNCHANGED <<blobs, ops, pc, call, last, grants, releases,
                 cost_map, credited>>

TokenChoices == {<<>>} \cup {<<n>> : n \in 0..ops}

(***************************************************************************)
(* Spec: storage calls of the tenants the deployment intends, every        *)
(* round-trip answered                                                     *)
(***************************************************************************)
Next ==
  \/ \E t \in Targets, exp \in ExpChoices, value \in Values :
       ops < MaxOps /\ Store(t[1], t[2], exp, value, "none")
  \/ \E t \in Targets : ops < MaxOps /\ Delete(t[1], t[2], "none")
  \/ \E t \in Targets : ops < MaxOps /\ Load(t[1], t[2])
  \/ Collect
  \/ Tick

Spec == Init /\ [][Next]_vars

(***************************************************************************)
(* SpecLock: lock calls of the tenants the deployment intends              *)
(***************************************************************************)
\* storage calls whose requests to the backend or the overflow store may fail
NextFault ==
  \/ \E t \in Targets, exp \in ExpChoices, value \in Values, fault \in Faults :
       ops < MaxFaultOps /\ Store(t[1], t[2], exp, value, fault)
  \/ \E t \in Targets, fault \in Faults :
       ops < MaxFaultOps /\ Delete(t[1], t[2], fault)
  \/ Collect
  \/ Tick

SpecFault == Init /\ [][NextFault]_vars

\* storage and lock calls of tenants whose strings are not restricted
NextAnyTenant ==
  \/ \E t \in AnyTargets : ops < MaxAnyOps /\ Store(t[1], t[2], TickMs, VInline, "none")
  \/ \E t \in AnyTargets : ops < MaxAnyOps /\ Delete(t[1], t[2], "none")
  \/ \E c \in Callers, t \in AnyTargets : ops < MaxAnyOps /\ LockCall(c, t[1], t[2], retry_count)
  \/ \E c \in Callers : LockExists(c)
  \/ \E c \in Callers : LockSleep(c)
  \/ \E c \in Callers : LockStore(c)
  \/ \E c \in Callers, t \in AnyTargets, lock_id \in TokenChoices :
       ops < MaxAnyOps /\ UnlockLoad(c, t[1], t[2], lock_id)
  \/ \E c \in Callers : UnlockDelete(c)
  \/ Tick

SpecAnyTenant == Init /\ [][NextAnyTenant]_vars

\* storage calls with the reads, inline and overflowed values
NextRead ==
  \/ \E t \in Targets, exp \in ReadExpChoices, value \in {VInline, VOver} :
       ops < MaxReadOps /\ Store(t[1], t[2], exp, value, "none")
  \/ \E t \in Targets : ops < MaxReadOps /\ Delete(t[1], t[2], "none")
  \/ \E t \in Targets : ops < MaxReadOps /\ Load(t[1], t[2])
  \/ \E t \in Targets : ops < MaxReadOps /\ Exists(t[1], t[2])
  \/ \E t \in Targets : ops < MaxReadOps /\ Stat(t[1], t[2])
  \/ Collect
  \/ Tick

SpecRead == Init /\ [][NextRead]_vars

\* stores, deletes and listings of keys with separators
NextList ==
  \/ \E t \in ListTargets : ops < MaxListOps /\ Store(t[1], t[2], TickMs, VInline, "none")
  \/ \E t \in ListTargets : ops < MaxListOps /\ Delete(t[1], t[2], "none")
  \/ \E pcr \in PlainTenants, prefix \in ListPrefixes, recursive \in BOOLEAN :
       \E twice \in SUBSET CanScan(redis, get_namespaced_key(pcr, <<"*">>)) :
         ops < MaxListOps /\ List(pcr, prefix, recursive, twice)
  \/ Tick

SpecList == Init /\ [][NextList]_vars

\* expiries of SpecCost, in milliseconds: below a second, seconds, and
\* 64000 * 2^32, 1000 * 2^40, i64::MAX
CostExps ==
  {ToWord(999), ToWord(TickMs), ToWord(2 * TickMs), ToWord(86400000),
   ShiftedWord(64000, 4), ShiftedWord(1000, 5), I64Max}

\* the cost arithmetic of store over large expiries, in both builds
NextCost ==
  \E bytes \in CostBytes, exp \in CostExps, checks \in BOOLEAN :
    ops < MaxCostOps /\ StoreCost(bytes, exp, checks)

SpecCost == Init /\ [][NextCost]_vars

NextLock ==
  \/ \E c \in Callers, t \in LockTargets : ops < MaxLockOps /\ LockCall(c, t[1], t[2], retry_count)
  \/ \E c \in Callers : LockExists(c)
  \/ \E c \in Callers : LockSleep(c)
  \/ \E c \in Callers : LockStore(c)
  \/ \E c \in Callers, t \in LockTargets, lock_id \in TokenChoices :
       ops < MaxLockOps /\ UnlockLoad(c, t[1], t[2], lock_id)
  \/ \E c \in Callers : UnlockDelete(c)
  \/ Tick

SpecLock == Init /\ [][NextLock]_vars

\* lock calls under several values of config.retry_count
NextRetry ==
  \/ \E c \in Callers, t \in LockTargets, retries \in RetryCounts :
       ops < MaxRetryOps /\ LockCall(c, t[1], t[2], retries)
  \/ \E c \in Callers : LockExists(c)
  \/ \E c \in Callers : LockSleep(c)
  \/ \E c \in Callers : LockStore(c)
  \/ \E c \in Callers, t \in LockTargets, lock_id \in TokenChoices :
       ops < MaxRetryOps /\ UnlockLoad(c, t[1], t[2], lock_id)
  \/ \E c \in Callers : UnlockDelete(c)
  \/ Tick

SpecRetry == Init /\ [][NextRetry]_vars

\* every round-trip of a call in flight is answered and the sleep returns
SpecRetryFair ==
  SpecRetry /\ \A c \in Callers :
                 WF_vars(LockExists(c) \/ LockSleep(c) \/ LockStore(c) \/ UnlockDelete(c))

\* lock and unlock requests served by one process
NextHandler ==
  \/ \E c \in Callers, t \in LockTargets : ops < MaxHandlerOps /\ HandlerLock(c, t[1], t[2])
  \/ \E c \in Callers : LockExists(c)
  \/ \E c \in Callers : LockSleep(c)
  \/ \E c \in Callers : LockStore(c)
  \/ \E c \in Callers, t \in LockTargets, lock_id \in TokenChoices :
       ops < MaxHandlerOps /\ HandlerUnlock(c, t[1], t[2], lock_id)
  \/ \E c \in Callers : UnlockDelete(c)
  \/ UpdateCost
  \/ Tick

SpecHandler == Init /\ [][NextHandler]_vars

\* storage, list and lock calls on one key of each tenant of KsTenants
NextKeyspace ==
  \/ \E pcr \in KsTenants : ops < MaxKsOps /\ Store(pcr, <<"a">>, TickMs, VInline, "none")
  \/ \E pcr \in KsTenants : ops < MaxKsOps /\ Delete(pcr, <<"a">>, "none")
  \/ \E pcr \in KsTenants, prefix \in KsPrefixes, recursive \in BOOLEAN :
       ops < MaxKsOps /\ List(pcr, prefix, recursive, {})
  \/ \E c \in KsCallers, pcr \in KsTenants :
       ops < MaxKsOps /\ LockCall(c, pcr, <<"a">>, retry_count)
  \/ \E c \in Callers : LockExists(c)
  \/ \E c \in Callers : LockSleep(c)
  \/ \E c \in Callers : LockStore(c)
  \/ \E c \in KsCallers, pcr \in KsTenants, lock_id \in TokenChoices :
       ops < MaxKsOps /\ UnlockLoad(c, pcr, <<"a">>, lock_id)
  \/ \E c \in Callers : UnlockDelete(c)
  \/ Tick

SpecKeyspace == Init /\ [][NextKeyspace]_vars

\* stores and deletes of inline and overflowed values with every read
NextFrame ==
  \/ \E t \in Targets, value \in {VInline, VOver} :
       ops < MaxFrameOps /\ Store(t[1], t[2], 2 * TickMs, value, "none")
  \/ \E t \in Targets : ops < MaxFrameOps /\ Delete(t[1], t[2], "none")
  \/ \E t \in Targets : ops < MaxFrameOps /\ Load(t[1], t[2])
  \/ \E t \in Targets : ops < MaxFrameOps /\ Exists(t[1], t[2])
  \/ \E t \in Targets : ops < MaxFrameOps /\ Stat(t[1], t[2])
  \/ \E pcr \in PlainTenants, prefix \in KsPrefixes, recursive \in BOOLEAN :
       ops < MaxFrameOps /\ List(pcr, prefix, recursive, {})
  \/ Collect
  \/ Tick

SpecFrame == Init /\ [][NextFrame]_vars

\* the <<tenant, key>> pairs of SpecLedger
LedgerTargets == {<<<<"p">>, <<"a">>>>, <<<<"q">>, <<"a">>>>}

\* the expiries of SpecLedger: rejected, and a second
LedgerExps == {0, TickMs}

\* the large expiry of SpecLedger, in milliseconds: 23283 * 2^32, about
\* 10^14; the cost of a store of LedgerBytes bytes with it fits an i64
LedgerLongExp == ShiftedWord(23283, 4)

\* key and record bytes of the stores with the large expiry
LedgerBytes == 60

\* requests of two tenants served by one process
NextLedger ==
  \/ \E t \in LedgerTargets, exp \in LedgerExps :
       ops < MaxLedgerOps /\ HandlerStore(t[1], t[2], exp, VInline)
  \/ \E t \in LedgerTargets, checks \in BOOLEAN :
       ops < MaxLedgerOps /\ HandlerStoreCost(t[1], LedgerBytes, LedgerLongExp, checks)
  \/ \E t \in LedgerTargets : ops < MaxLedgerOps /\ HandlerLoad(t[1], t[2])
  \/ \E t \in LedgerTargets : ops < MaxLedgerOps /\ HandlerDelete(t[1], t[2])
  \/ \E c \in Callers, t \in LedgerTargets :
       ops < MaxLedgerOps /\ HandlerLock(c, t[1], t[2])
  \/ \E c \in Callers : LockExists(c)
  \/ \E c \in Callers : LockSleep(c)
  \/ \E c \in Callers : LockStore(c)
  \/ \E c \in Callers, t \in LedgerTargets, lock_id \in TokenChoices :
       ops < MaxLedgerOps /\ HandlerUnlock(c, t[1], t[2], lock_id)
  \/ \E c \in Callers : UnlockDelete(c)
  \/ UpdateCost
  \/ Tick

SpecLedger == Init /\ [][NextLedger]_vars

(***************************************************************************)
(* SpecShare: overflowed values only, so that records share a blob         *)
(***************************************************************************)
NextShare ==
  \/ \E t \in Targets : ops < MaxShareOps /\ Store(t[1], t[2], 2 * TickMs, VOver, "none")
  \/ \E t \in Targets : ops < MaxShareOps /\ Delete(t[1], t[2], "none")
  \/ \E t \in Targets : ops < MaxShareOps /\ Load(t[1], t[2])
  \/ \E t \in Targets : ops < MaxShareOps /\ Exists(t[1], t[2])
  \/ \E t \in Targets : ops < MaxShareOps /\ Stat(t[1], t[2])
  \/ Collect
  \/ Tick

SpecShare == Init /\ [][NextShare]_vars

(***************************************************************************)
(* Properties of the lock manager (SpecLock)                               *)
(***************************************************************************)
LockKeys == {get_locked_key(t[1], t[2]) : t \in LockTargets}

AllTokens == {<<>>} \cup {<<n>> : n \in 0..MaxLockOps + 1}

\* the call numbered ops' was issued in this step as unlock(pcr, key, lock_id)
UnlockIssued(pcr, key, lock_id) ==
  /\ ops' = ops + 1
  /\ \/ /\ last'.id = ops' /\ last'.op = "unlock"
        /\ last'.pcr = pcr /\ last'.key = key /\ last'.lock_id = lock_id
     \/ \E c \in Callers :
          /\ call'[c].id = ops' /\ call'[c].op = "unlock"
          /\ call'[c].pcr = pcr /\ call'[c].key = key /\ call'[c].lock_id = lock_id

\* the call issued in this step returned an error in it
FailedAtOnce(op) == last'.id = ops' /\ last'.op = op /\ ~last'.ok

\* a call returned in this step
ReturnedNow(op) == last'.op = op /\ last'.id # last.id

\* C1: Lock mutual exclusion: from the moment an acquire(T,K) returns a
\* token until that lease is released with that token or expires, no other
\* acquire(T,K) returns success, in every interleaving of callers.
C1_MutualExclusion == (last.op = "lock" /\ last.ok) => ~last.held

\* C2: Wrong-token release: while the lock key of (T,K) holds token t, an
\* unlock(T,K,t') with t' # t fails in its first round-trip and leaves the
\* backend unchanged (the key and its token stay), while unlock(T,K,t)
\* goes on to delete the key and returns Ok.
C2_WrongTokenRelease ==
  [][\A t \in LockTargets, lock_id \in AllTokens :
       LET lk == get_locked_key(t[1], t[2])
       IN (UnlockIssued(t[1], t[2], lock_id) /\ lk \in DOMAIN redis)
            => /\ redis[lk].val.value # lock_id
                  => FailedAtOnce("unlock") /\ redis' = redis
               /\ redis[lk].val.value = lock_id
                  => /\ \E c \in Callers :
                          call'[c].id = ops' /\ pc'[c] = "delete_locked"
               /\ (ReturnedNow("unlock") /\ last'.id # ops') => last'.ok]_vars

\* a wrong-token unlock has returned an error and the lease is still there
C2_Witness ==
  /\ last.op = "unlock" /\ ~last.ok
  /\ get_locked_key(last.pcr, last.key) \in DOMAIN redis
  /\ redis[get_locked_key(last.pcr, last.key)].val.value # last.lock_id
  /\ last.lock_id # <<>>

\* C3: Lock cycle: when an unlock returns Ok the lock key is absent; a lock
\* call that probes an absent lock key goes straight to the conditional
\* write, and a conditional write on an absent key returns the token; so
\* acquire, release, acquire succeeds on the first attempt, cycle after
\* cycle.
C3_LockCycle ==
  [][/\ (ReturnedNow("unlock") /\ last'.ok)
          => get_locked_key(last'.pcr, last'.key) \notin DOMAIN redis'
     /\ \A c \in Callers :
          LET lk == get_locked_key(call[c].pcr, call[c].key)
          IN /\ (pc[c] = "exists_locked" /\ pc'[c] # "exists_locked"
                  /\ call'[c].probes = call[c].probes + 1 /\ lk \notin DOMAIN redis)
                 => pc'[c] = "store_locked"
             /\ (pc[c] = "store_locked" /\ pc'[c] = "idle" /\ lk \notin DOMAIN redis)
                 => /\ last'.op = "lock" /\ last'.ok /\ last'.id = call[c].id
                    /\ last'.probes = call[c].probes
                    /\ lk \in DOMAIN redis' /\ redis'[lk].val.value = last'.val]_vars

\* a second lease was granted at the first probe, on a key whose first lease
\* was released with its token, before any lease could expire
C3_Witness ==
  LET lk == get_locked_key(last.pcr, last.key)
  IN /\ last.op = "lock" /\ last.ok /\ last.probes = 1 /\ now = 0
     /\ lk \in DOMAIN grants /\ grants[lk] = 2
     /\ \E tok \in AllTokens : tok # <<>> /\ <<lk, tok>> \in releases

\* C4: Lease expiry: every lease is written with lock_expiry, so the lock
\* key that holds a lease's token has exactly lock_expiry minus the lease's
\* age left, and no lock key outlives lock_expiry: once lock_expiry has
\* elapsed the key is gone and a new acquire can be granted.
C4_LeaseExpiry ==
  \A lk \in LockKeys :
    lk \in DOMAIN redis
      => /\ redis[lk].ttl >= 1 /\ redis[lk].ttl <= lock_expiry
         /\ lk \in DOMAIN lease
         /\ lease[lk].tok = redis[lk].val.value
         /\ redis[lk].ttl = lock_expiry - lease[lk].age

\* a lease was granted on a key whose earlier lease was never released:
\* it had expired
C4_Witness ==
  LET lk == get_locked_key(last.pcr, last.key)
  IN /\ last.op = "lock" /\ last.ok
     /\ lk \in DOMAIN grants /\ grants[lk] = 2
     /\ releases = {}
     /\ now >= lock_expiry

(***************************************************************************)
(* Properties of the storage engine (Spec, SpecFault, SpecShare,           *)
(* SpecAnyTenant)                                                          *)
(***************************************************************************)
\* the call numbered ops' was issued, and returned, in this step
Issued(op, pcr, key) ==
  /\ ops' = ops + 1
  /\ last'.id = ops' /\ last'.op = op /\ last'.pcr = pcr /\ last'.key = key

\* C5: Round-trip: after a successful store(T,K,e,V) with e > 0, before its
\* expiry and with no later store or delete of (T,K), load(T,K) returns
\* exactly V, for inline and for overflowed values.
C5_RoundTrip ==
  \A sk \in DOMAIN shadow :
    (shadow[sk].rem > 0 /\ ~shadow[sk].refreshed)
      => LET res == load(redis, blobs, sk[1], sk[2])
         IN res.ok /\ res.val = shadow[sk].value

\* C6: Namespace isolation: for tenants T1 # T2 and the same key K, a
\* store(T1,K,...) changes none of load(T2,K), exists(T2,K), stat(T2,K).
C6_NamespaceIsolation ==
  [][\A t1 \in Targets, t2 \in Targets :
       (t1[1] # t2[1] /\ t1[2] = t2[2] /\ Issued("store", t1[1], t1[2]))
         => /\ load(redis', blobs', t2[1], t2[2]) = load(redis, blobs, t2[1], t2[2])
            /\ exists(redis', t2[1], t2[2]) = exists(redis, t2[1], t2[2])
            /\ stat(redis', t2[1], t2[2]) = stat(redis, t2[1], t2[2])]_vars

\* what the calls of tenant pcr for key observe of the stores
TenantView(r, b, pcr, key) ==
  [load |-> load(r, b, pcr, key), exists |-> exists(r, pcr, key),
   stat |-> stat(r, pcr, key), locked |-> exists_locked(r, pcr, key),
   token |-> load_locked(r, pcr, key)]

\* a store, delete, lock or unlock of tenant pcr wrote in this step
WroteFor(pcr) ==
  \/ /\ ops' = ops + 1 /\ last'.id = ops'
     /\ last'.op \in {"store", "delete"} /\ last'.pcr = pcr
  \/ \E c \in Callers :
       /\ pc[c] \in {"store_locked", "delete_locked"} /\ pc'[c] = "idle"
       /\ call[c].pcr = pcr

\* C7: Two tenants never contend: for any distinct tenant strings T1 # T2
\* and any keys, no store, delete, acquire or release of T1 changes what
\* load, exists, stat, acquire or release of T2 observe.
C7_NoContention ==
  [][\A t1 \in AnyTargets, t2 \in AnyTargets :
       (t1[1] # t2[1] /\ WroteFor(t1[1]))
         => TenantView(redis', blobs', t2[1], t2[2])
              = TenantView(redis, blobs, t2[1], t2[2])]_vars

\* C8: TTL expiry: once the e milliseconds of a successful store(T,K,e,V),
\* e > 0, have elapsed with no further store of (T,K), the record is gone:
\* load(T,K) fails and exists(T,K) is false.
C8_TtlExpiry ==
  \A sk \in DOMAIN shadow :
    (shadow[sk].rem = 0 /\ ~shadow[sk].refreshed)
      => /\ ~load(redis, blobs, sk[1], sk[2]).ok
         /\ ~exists(redis, sk[1], sk[2]).val

\* a load issued after the expiry of an inline value has failed
C8_Witness ==
  \E sk \in DOMAIN shadow :
    /\ shadow[sk].rem = 0 /\ ~shadow[sk].refreshed /\ shadow[sk].value = VInline
    /\ last.op = "load" /\ ~last.ok /\ last.pcr = sk[1] /\ last.key = sk[2]
    /\ last.id = ops /\ now >= TickMs

\* C9: Conditional refresh preserves TTL: store(T,K,-1,V2) issued before
\* the expiry of the record succeeds; until that expiry load(T,K) returns
\* V2 and the remaining TTL is the one of the first store; at that expiry
\* the record is gone.
C9_RefreshKeepsTtl ==
  [][/\ \A t \in Targets :
          (/\ Issued("store", t[1], t[2]) /\ last'.exp = -1
           /\ t \in DOMAIN shadow /\ shadow[t].rem > 0)
            => last'.ok /\ t \in DOMAIN shadow' /\ shadow'[t].refreshed
     /\ \A sk \in DOMAIN shadow' :
          LET k == get_namespaced_key(sk[1], sk[2])
              res == load(redis', blobs', sk[1], sk[2])
          IN shadow'[sk].refreshed
               => /\ shadow'[sk].rem > 0
                     => /\ k \in DOMAIN redis' /\ redis'[k].ttl = shadow'[sk].rem
                        /\ res.ok /\ res.val = shadow'[sk].value
                  /\ shadow'[sk].rem = 0
                     => k \notin DOMAIN redis' /\ ~res.ok]_vars

\* C10: Refresh never creates a record: store(T,K,-1,V) issued when no
\* record exists for (T,K) leaves exists(T,K) false, whether the call
\* returns Ok or an error.
C10_RefreshNeverCreates ==
  [][\A t \in Targets :
       (/\ Issued("store", t[1], t[2]) /\ last'.exp = -1
        /\ ~exists(redis, t[1], t[2]).val)
         => ~exists(redis', t[1], t[2]).val]_vars

\* a refresh was issued, with no request failing, for a key that is absent
C10_Witness ==
  /\ last.op = "store" /\ last.exp = -1 /\ last.fault = "none" /\ last.id = ops
  /\ ~exists(redis, last.pcr, last.key).val
  /\ last.value = VOver

\* C11: Zero expiry always rejected with no state change: store(T,K,0,V)
\* fails for every V, also for V longer than the memory threshold, and
\* leaves the backend and the overflow store exactly as they were.
C11_ZeroExpiryNoChange ==
  [][\A t \in Targets :
       (Issued("store", t[1], t[2]) /\ last'.exp = 0)
         => ~last'.ok /\ redis' = redis /\ blobs' = blobs]_vars

\* C12: Delete idempotence: delete(T,K) on a key with no record (never
\* stored, already deleted, or expired) succeeds and returns the fixed cost,
\* leaving the state as it was.
C12_DeleteIdempotent ==
  [][\A t \in Targets :
       (Issued("delete", t[1], t[2]) /\ ~exists(redis, t[1], t[2]).val)
         => /\ last'.ok /\ last'.cost = operation_c_cost
            /\ redis' = redis /\ blobs' = blobs]_vars

\* C16: stat(T,K) on a live record returns key = K, is_terminal = (K does
\* not end with '/') and size = the length of the value passed to store,
\* for inline and for overflowed records.
C16_StatOfLiveRecord ==
  \A sk \in DOMAIN shadow :
    (shadow[sk].rem > 0 /\ ~shadow[sk].refreshed)
      => LET res == stat(redis, sk[1], sk[2])
         IN /\ res.ok
            /\ res.val.key = sk[2]
            /\ res.val.is_terminal = ~ends_with_slash(sk[2])
            /\ res.val.modified <= now
            /\ res.val.size = StrLen(shadow[sk].value)

RefOf(r, pcr, key) ==
  LET v == RedisGet(r, get_namespaced_key(pcr, key))
  IN IF IsString(v) /\ v.ipfs THEN from_str(v).value ELSE <<>>

\* reference ref is in the custody of the overflow store
Pinned(b, ref) == ref \in DOMAIN b /\ b[ref] = "pinned"

\* C19: Delete of an overflowed record is all-or-nothing: when delete(T,K)
\* returns Ok both the record and the blob it referenced are gone; when a
\* step of delete fails it returns an error and neither has been removed.
C19_DeleteAllOrNothing ==
  [][\A t \in Targets :
       (Issued("delete", t[1], t[2]) /\ RefOf(redis, t[1], t[2]) # <<>>)
         => /\ last'.ok
                 => /\ ~exists(redis', t[1], t[2]).val
                    /\ ~Pinned(blobs', RefOf(redis, t[1], t[2]))
            /\ ~last'.ok => redis' = redis /\ blobs' = blobs]_vars

\* a record for the <<tenant, key>> pair t is present in the backend
Present(r, t) == get_namespaced_key(t[1], t[2]) \in DOMAIN r

\* C13: exists(T,K) returns true exactly when a record for (T,K) is present
\* in the backend, and presence follows the calls: absent for a key never
\* stored, present after a successful store with expiry > 0 until that
\* expiry is reached, absent after a successful delete, and changed by
\* nothing else.
C13_ExistsTracksRecord ==
  /\ \A t \in Targets : ~Present(redis, t)
  /\ [][\A t \in Targets :
          LET k == get_namespaced_key(t[1], t[2])
              stored == Issued("store", t[1], t[2]) /\ last'.exp > 0 /\ last'.ok
              deleted == Issued("delete", t[1], t[2]) /\ last'.ok
          IN /\ Issued("exists", t[1], t[2])
                  => /\ last'.ok /\ last'.val = Present(redis, t)
                     /\ last'.cost = operation_c_cost
             /\ stored => Present(redis', t) /\ redis'[k].ttl = last'.exp
             /\ deleted => ~Present(redis', t)
             /\ now' # now
                  => Present(redis', t) = (Present(redis, t) /\ redis[k].ttl > now' - now)
             /\ (~stored /\ ~deleted /\ now' = now)
                  => Present(redis', t) = Present(redis, t)]_vars

\* exists has returned false for a key whose record was stored and expired
C13_Witness ==
  \E sk \in DOMAIN shadow :
    /\ shadow[sk].rem = 0
    /\ last.op = "exists" /\ last.pcr = sk[1] /\ last.key = sk[2]
    /\ last.ok /\ last.val = FALSE /\ last.id = ops

C20_ReadOfAbsentFails ==
  [][\A t \in Targets :
       ((Issued("load", t[1], t[2]) \/ Issued("stat", t[1], t[2])) /\ ~Present(redis, t))
         => /\ ~last'.ok /\ last'.cost = 0
            /\ last'.val \in {<<>>, NoInfo}
            /\ redis' = redis /\ blobs' = blobs]_vars

\* load has failed on a key with no record, after the delete of a record
C20_Witness ==
  /\ last.op = "load" /\ ~last.ok /\ last.id = ops
  /\ ~Present(redis, <<last.pcr, last.key>>)
  /\ \E ref \in DOMAIN blobs : blobs[ref] = "unpinned"
  /\ redis = EmptyMap

\* the logical keys of the live records of tenant pcr
LiveKeys(r, pcr) ==
  {StripPrefix(k, get_namespace_prefix(pcr)) :
     k \in {x \in DOMAIN r : IsPrefix(get_namespace_prefix(pcr), x)}}

\* the call numbered ops' was issued in this step as list(pcr, prefix, recursive)
IssuedList(pcr, prefix, recursive) ==
  Issued("list", pcr, prefix) /\ last'.exp = (IF recursive THEN 1 ELSE 0)

\* C14: Recursive listing: list(T,p,true) with a non-empty p # "*" returns
\* exactly the logical keys of T's live records that begin with p, each
\* once, the tenant prefix stripped, however the scan is split into pages.
C14_RecursiveListing ==
  [][\A pcr \in PlainTenants, p \in ListPrefixes \ {<<>>, <<"*">>} :
       IssuedList(pcr, p, TRUE)
         => /\ last'.ok
            /\ last'.val = [key \in {x \in LiveKeys(redis, pcr) : IsPrefix(p, x)} |-> 1]]_vars

\* C15: Non-recursive listing: list(T,p,false) with a non-empty p # "*"
\* returns, with no duplicates, exactly { p + s } for s the first
\* '/'-separated segment of the remainder after p of each live key of T
\* that begins with p.
C15_OneLevelListing ==
  [][\A pcr \in PlainTenants, p \in ListPrefixes \ {<<>>, <<"*">>} :
       IssuedList(pcr, p, FALSE)
         => /\ last'.ok
            /\ last'.val =
                 [key \in {p \o FirstSegment(StripPrefix(x, p)) :
                             x \in {y \in LiveKeys(redis, pcr) : IsPrefix(p, y)}} |-> 1]]_vars

\* C17: every successful operation returns a cost >= 0; in particular the
\* product bytes * (expiry_ms / 1000) * memory_unit_cost + fixed cost of a
\* store never comes out negative, by wrap-around or otherwise.
C17_CostNeverNegative ==
  (last.op = "store_cost" /\ last.ok) => ~IsNegative(last.val)

\* C25: Tiering: the record a successful store leaves has the overflow flag
\* set exactly when the value is longer than mem_threshold bytes (a value of
\* exactly mem_threshold bytes is inline); an inline record holds the value,
\* an overflowed one the reference ipfs::add returns for the value, which
\* the overflow store then holds.
C25_Tiering ==
  [][\A t \in Targets :
       (Issued("store", t[1], t[2]) /\ last'.ok)
         => LET k == get_namespaced_key(t[1], t[2])
                data == from_str(RedisGet(redis', k))
            IN /\ k \in DOMAIN redis'
               /\ data.ipfs <=> StrLen(last'.value) > mem_threshold
               /\ ~data.ipfs => data.value = last'.value
               /\ data.ipfs => /\ data.value = ipfs_add(blobs, last'.value).hash
                               /\ data.value \in DOMAIN blobs']_vars

\* a value of exactly mem_threshold bytes was stored and its record is inline
C25_Witness ==
  LET k == get_namespaced_key(last.pcr, last.key)
  IN /\ last.op = "store" /\ last.ok /\ last.exp > 0
     /\ StrLen(last.value) = mem_threshold
     /\ k \in DOMAIN redis /\ ~from_str(RedisGet(redis, k)).ipfs
     /\ from_str(RedisGet(redis, k)).value = last.value

KeysUnder(r, prefix) == [k \in {x \in DOMAIN r : IsPrefix(prefix, x)} |-> r[k]]

\* this step is a round-trip, or the issue, of a lock or unlock call on pcr
LockStepOn(pcr) ==
  \/ \E c \in Callers : pc[c] # "idle" /\ call[c].pcr = pcr /\ pc'[c] # pc[c]
  \/ /\ ops' = ops + 1
     /\ \/ last'.id = ops' /\ last'.op \in {"lock", "unlock"} /\ last'.pcr = pcr
        \/ \E c \in Callers : call'[c].id = ops' /\ call'[c].pcr = pcr

\* this step is a store, delete or list call on pcr
StorageStepOn(pcr) ==
  ops' = ops + 1 /\ last'.id = ops' /\ last'.pcr = pcr
    /\ last'.op \in {"store", "delete", "list"}

\* C27: Within one tenant the data and lock keyspaces are disjoint: no
\* namespaced key of a tenant equals a lock key of that tenant; a store,
\* delete or list on the tenant leaves the tenant's lock keys, their tokens
\* and TTLs as they were, and every entry a list returns comes from a data
\* key of the tenant; a round-trip of lock or unlock on the tenant leaves
\* the tenant's data keys and the overflow store as they were.
C27_KeyspacesDisjoint ==
  /\ \A pcr \in KsStrings, k1 \in KsStrings, k2 \in KsStrings :
       get_namespaced_key(pcr, k1) # get_locked_key(pcr, k2)
  /\ [][\A pcr \in KsTenants :
          LET ns == get_namespace_prefix(pcr)
              lp == get_locked_prefix(pcr)
          IN /\ StorageStepOn(pcr)
                  => /\ KeysUnder(redis', lp) = KeysUnder(redis, lp)
                     /\ last'.op = "list"
                          => \A e \in DOMAIN last'.val :
                               \E k \in DOMAIN KeysUnder(redis, ns) :
                                 IsPrefix(e, StripPrefix(k, ns))
             /\ LockStepOn(pcr)
                  => /\ KeysUnder(redis', ns) = KeysUnder(redis, ns)
                     /\ blobs' = blobs]_vars

\* a list on the tenant "*", whose pattern matches every key of the backend,
\* has returned the tenant's data key while a lease of the tenant is held
C27_Witness ==
  /\ last.op = "list" /\ last.pcr = <<"*">> /\ last.id = ops
  /\ DOMAIN last.val = {<<"a">>}
  /\ get_locked_key(<<"*">>, <<"a">>) \in DOMAIN redis
  /\ get_namespaced_key(<<"*">>, <<"a">>) \in DOMAIN redis

\* C28: Read operations have no effect: a load, exists, stat or list call,
\* whether it returns Ok or an error, leaves every backend key with its
\* value and TTL and every blob of the overflow store as they were.
C28_ReadsChangeNothing ==
  [][(ops' = ops + 1 /\ last'.id = ops'
        /\ last'.op \in {"load", "exists", "stat", "list"})
       => redis' = redis /\ blobs' = blobs]_vars

\* an overflowed value was loaded from the overflow store, and a second
\* after the store its record is there with the rest of its TTL
C28_Witness ==
  LET k == get_namespaced_key(last.pcr, last.key)
  IN /\ last.op = "load" /\ last.ok /\ last.val = VOver /\ last.id = ops
     /\ now = TickMs
     /\ k \in DOMAIN redis /\ redis[k].ttl = TickMs
     /\ from_str(RedisGet(redis, k)).ipfs
     /\ from_str(RedisGet(redis, k)).value \in DOMAIN blobs

\* C29: Refresh of an absent key is a pure no-op: store(T,K,-1,V) issued
\* when the backend holds no record for (T,K) returns Ok and leaves the
\* backend and the overflow store as they were.
C29_RefreshOfAbsentIsNoOp ==
  [][\A t \in Targets :
       (/\ Issued("store", t[1], t[2]) /\ last'.exp = -1
        /\ get_namespaced_key(t[1], t[2]) \notin DOMAIN redis)
         => last'.ok /\ redis' = redis /\ blobs' = blobs]_vars

(***************************************************************************)
(* Properties of the retry loop of lock (SpecLock, SpecRetryFair)          *)
(***************************************************************************)
\* C21: Lost race ends the call: when the conditional write of a lock call
\* finds the key present (another caller wrote it after this call's probe
\* saw it absent), the call returns an error in that step, with the probes
\* it had made, one conditional write, and the backend unchanged; no lock
\* call ever makes a second conditional write.
C21_LostRaceEndsCall ==
  [][/\ \A c \in Callers :
          (/\ pc[c] = "store_locked"
           /\ pc'[c] # "store_locked"
           /\ get_locked_key(call[c].pcr, call[c].key) \in DOMAIN redis)
            => /\ pc'[c] = "idle"
               /\ last'.id = call[c].id /\ last'.op = "lock" /\ ~last'.ok
               /\ last'.probes = call[c].probes /\ last'.writes = 1
               /\ redis' = redis
     /\ last'.op = "lock" => last'.writes <= 1]_vars

\* a lock call lost the race: it wrote once, in vain, before any lease expired
C21_Witness ==
  /\ last.op = "lock" /\ ~last.ok /\ last.writes = 1 /\ last.probes = 1
  /\ get_locked_key(last.pcr, last.key) \in DOMAIN redis
  /\ redis[get_locked_key(last.pcr, last.key)].val.value # <<last.id>>

\* C22: Bounded acquisition: a lock call in flight has made at most
\* retry_count probes, a returned one at most retry_count probes and one
\* conditional write; a call that returns without a write (the key was
\* present at every probe) has made exactly retry_count probes and fails; a
\* call with retry_count = 0 fails in the step it is issued in, with no
\* backend round-trip; and every call in flight returns.
C22_BoundedAcquisition ==
  /\ [](\A c \in Callers :
          call[c].op = "lock"
            => call[c].probes <= call[c].retry_count /\ call[c].i < call[c].retry_count)
  /\ [](last.op = "lock"
          => /\ last.probes <= last.retry_count /\ last.writes <= 1
             /\ last.writes = 0 => ~last.ok /\ last.probes = last.retry_count
             /\ last.retry_count = 0 => ~last.ok /\ last.probes = 0 /\ last.writes = 0)
  /\ [][/\ \A c \in Callers :
             (pc[c] = "sleep" /\ call[c].probes = call[c].retry_count /\ call'[c] # call[c])
               => /\ pc'[c] = "idle" /\ last'.id = call[c].id /\ ~last'.ok
                  /\ last'.writes = 0 /\ redis' = redis
        /\ (ops' = ops + 1 /\ last'.id = ops' /\ last'.op = "lock")
             => last'.retry_count = 0 /\ redis' = redis
        /\ (ops' = ops + 1 /\ last'.id # ops')
             => \E c \in Callers : call'[c].id = ops' /\
                  (call'[c].op = "lock" => call'[c].retry_count > 0)]_vars
  /\ \A c \in Callers : (pc[c] # "idle") ~> (pc[c] = "idle")

\* a lock call saw the key present at each of its retry_count probes and
\* failed without a write
C22_Witness ==
  /\ last.op = "lock" /\ ~last.ok /\ last.writes = 0
  /\ last.retry_count = retry_count /\ last.probes = retry_count

\* C24: Release never evicts another holder: the round-trip of an unlock
\* call, given a token a lock call returned, that deletes the lock key finds
\* that token there.
C24_ReleaseDeletesOwnToken ==
  [][\A c \in Callers :
       LET lk == get_locked_key(call[c].pcr, call[c].key)
       IN (/\ pc[c] = "delete_locked" /\ pc'[c] = "idle"
           /\ call[c].lock_id # <<>> /\ lk \in DOMAIN redis)
            => redis[lk].val.value = call[c].lock_id]_vars

(***************************************************************************)
(* Properties of the request handlers (SpecHandler)                        *)
(***************************************************************************)
\* C23: Backoff does not stall other callers: while a lock request is in
\* its retry backoff, the unlock request of the current holder, with the
\* token stored at the lock key, can be served.
C23_BackoffDoesNotStall ==
  \A c \in Callers :
    LET lk == get_locked_key(call[c].pcr, call[c].key)
    IN (pc[c] = "sleep" /\ lk \in DOMAIN redis)
         => \E d \in Callers \ {c} :
              ENABLED HandlerUnlock(d, call[c].pcr, call[c].key, redis[lk].val.value)

\* C30: Release without a lease fails: an unlock issued with any token,
\* the empty one included, while the lock key is absent returns an error in
\* its first round-trip and leaves the backend without the lock key.
C30_ReleaseWithoutLeaseFails ==
  [][\A t \in LockTargets, lock_id \in AllTokens :
       LET lk == get_locked_key(t[1], t[2])
       IN (UnlockIssued(t[1], t[2], lock_id) /\ lk \notin DOMAIN redis)
            => FailedAtOnce("unlock") /\ redis' = redis]_vars

(***************************************************************************)
(* Properties of the overflow store (SpecShare, Spec)                      *)
(***************************************************************************)
\* what load returns now, and what it returns once the overflow store has
\* collected what it no longer holds in custody
LoadViews(r, b, pcr, key) == <<load(r, b, pcr, key), load(r, ipfs_collect(b), pcr, key)>>

\* C31: Keys are independent under overflow: for distinct keys K1, K2 of a
\* tenant whose records are both overflowed, a delete or a store of K1 does
\* not change what load(T,K2) returns, now or after the overflow store has
\* collected, also when both hold the same bytes.
C31_KeysIndependent ==
  [][\A t1 \in Targets, t2 \in Targets :
       (/\ t1[1] = t2[1] /\ t1[2] # t2[2]
        /\ RefOf(redis, t1[1], t1[2]) # <<>> /\ RefOf(redis, t2[1], t2[2]) # <<>>
        /\ Issued("delete", t1[1], t1[2]) \/ Issued("store", t1[1], t1[2]))
         => LoadViews(redis', blobs', t2[1], t2[2]) = LoadViews(redis, blobs, t2[1], t2[2])]_vars

\* C32: No orphaned blobs: every reference the overflow store holds in
\* custody is the reference of the record of some tenant and key.
C32_NoOrphanedBlobs ==
  \A ref \in DOMAIN blobs :
    Pinned(blobs, ref)
      => \E k \in DOMAIN redis :
           from_str(RedisGet(redis, k)).ipfs /\ from_str(RedisGet(redis, k)).value = ref

(***************************************************************************)
(* Properties of the costs (SpecFrame, SpecRead)                           *)
(***************************************************************************)
\* C33: Fixed-cost tiers: a successful list returns the list-class cost
\* operation_a_cost; a successful load or stat returns the store/load/stat
\* class cost operation_b_cost, and a successful store that cost on top of
\* its memory charge; a successful exists returns the exists-class cost
\* operation_c_cost.
C33_FixedCostTiers ==
  [][(ops' = ops + 1 /\ last'.id = ops' /\ last'.ok)
       => LET k == get_namespaced_key(last'.pcr, last'.key)
          IN /\ last'.op = "list" => last'.cost = operation_a_cost
             /\ last'.op \in {"load", "stat"} => last'.cost = operation_b_cost
             /\ last'.op = "exists" => last'.cost = operation_c_cost
             /\ (last'.op = "store" /\ last'.exp > 0)
                  => last'.cost = (StrLen(k) + JsonLen(RedisGet(redis', k)))
                                    * (last'.exp \div 1000) * memory_cost
                                  + operation_b_cost]_vars

\* C34: Refresh cost: a store with exp = -1 on a key that holds a record
\* returns max(0, new_len - old_len) * factor * memory_cost plus the fixed
\* cost store charges, where new_len and old_len are the lengths of the new
\* and of the replaced serialized record and factor is -1 / 1000 truncated
\* toward zero; the cost is never below the fixed cost.
C34_RefreshCost ==
  [][\A t \in Targets :
       LET k == get_namespaced_key(t[1], t[2])
       IN (Issued("store", t[1], t[2]) /\ last'.exp = -1 /\ k \in DOMAIN redis)
            => LET new_len == JsonLen(RedisGet(redis', k))
                   old_len == JsonLen(RedisGet(redis, k))
                   delta == IF new_len > old_len THEN new_len - old_len ELSE 0
                   factor == -((-last'.exp) \div 1000)
               IN /\ last'.ok
                  /\ last'.cost = delta * factor * memory_cost + operation_c_cost
                  /\ last'.cost >= operation_c_cost]_vars

\* a record was refreshed with an overflowed value and the call returned
\* the fixed cost
C34_Witness ==
  LET k == get_namespaced_key(last.pcr, last.key)
  IN /\ last.op = "store" /\ last.exp = -1 /\ last.ok /\ last.id = ops
     /\ last.value = VOver /\ last.cost = operation_c_cost
     /\ k \in DOMAIN redis /\ from_str(RedisGet(redis, k)).ipfs

(***************************************************************************)
(* Properties of the cost ledger (SpecLedger)                              *)
(***************************************************************************)
\* the ledger entry of a tenant, 0 when the tenant has none
Entry(map, pcr) == IF pcr \in DOMAIN map THEN map[pcr] ELSE ToWord(0)

\* C35: Cost ledger accounting: the ledger changes only in the step that
\* follows a call that returned Ok; in that step the entry of the call's
\* tenant becomes exactly the old entry plus the cost the call returned and
\* every other entry stays; a call that returns an error is never credited;
\* and between the Ok of a call and its credit no other call is issued or
\* returns, so every returned cost is added once and none is lost.
C35_LedgerAccounting ==
  [][/\ cost_map' # cost_map => UpdatePending
     /\ credited' # credited
          => /\ UpdatePending /\ credited' = last.id /\ last' = last
             /\ \A pcr \in DOMAIN cost_map \cup DOMAIN cost_map' \cup {last.pcr} :
                  Entry(cost_map', pcr) \o <<0>> =
                    FullSum(Entry(cost_map, pcr),
                            IF pcr = last.pcr THEN CostWord(last) ELSE ToWord(0))
     /\ UpdatePending => ops' = ops /\ last' = last /\ pc' = pc
     /\ (last'.id # last.id /\ ~last'.ok) => ~UpdatePending' /\ cost_map' = cost_map
     /\ (last'.id # last.id /\ last'.ok) => UpdatePending' /\ cost_map' = cost_map]_vars

====
